---------------------------- MODULE Spec2Model ----------------------------
(***************************************************************************)
(* Polymarket position monitor: POL.py (variant "A", snapshot keyed by     *)
(* conditionId, send_feishu raises) and POL1.py (variant "B", snapshot     *)
(* keyed by "conditionId:outcome", send_feishu swallows its errors, fetch  *)
(* wrapped in a bounded retry).                                            *)
(*                                                                         *)
(* Sizes are Python floats in the source.  They are modelled as exact      *)
(* integers counted in units of 0.005, so that CHANGE_THRESHOLD = 0.01 is  *)
(* 2 units; float(x) of a JSON number is then the value itself.  The       *)
(* display-only fields of a position (title, avgPrice, curPrice,           *)
(* percentPnl) are never compared by the code and are left out; an alert   *)
(* is the record of the values its text is formatted from, plus the key    *)
(* and the index of the fetched position that produced it (0 for the       *)
(* disappeared-position pass).                                             *)
(***************************************************************************)
EXTENDS Integers, Sequences, FiniteSets, TLC

VARIABLES
    variant,      \* "A": POL.py, "B": POL1.py
    pc,           \* control position of the running specification
    old_state,    \* main's old_state / detect_position_changes' argument
    positions,    \* the fetched list (new_positions)
    alerts,       \* the alert list returned by detect_position_changes
    new_state,    \* the snapshot returned by detect_position_changes
    sig_old,      \* is_significant_change: old_size
    sig_new,      \* is_significant_change: new_size
    sig_thr,      \* is_significant_change: threshold
    sig_res,      \* is_significant_change: returned value (once pc = "sig_returned")
    file_state,   \* the snapshot last written to STATE_FILE in full
    file_ok,      \* FALSE once a failed save_state left STATE_FILE truncated
    next_alert,   \* main: index of the alert "for msg in alerts" sends next
    attempts,     \* the send_feishu calls of the current cycle, in order
    save_called,  \* whether save_state was called in the current cycle
    elapsed,      \* fetch_positions_with_retry: time since start_time
    wait_time,    \* fetch_positions_with_retry: the wait computed last
    retry_count,  \* fetch_positions_with_retry: failed attempts of this call
    waited,       \* the waits of this call of fetch_positions_with_retry, summed
    last_ps,      \* history: the list fetched by the cycle before, kept while that
                  \* cycle left the baseline as it was, delivered an alert and the
                  \* upstream returns the same list again (else <<>>)
    last_sent,    \* history: the alerts that cycle delivered (else {})
    rebased,      \* history: this cycle replaced the baseline by another snapshot
    tracking,     \* whether the history of the cycle before is kept (SpecHistory)
    anchor        \* history: <<key, size>> of the last alert of every held key

detectVars == <<variant, pc, old_state, positions, alerts, new_state>>
sigVars == <<sig_old, sig_new, sig_thr, sig_res>>
retryVars == <<elapsed, wait_time, retry_count, waited>>
loopVars == <<file_state, file_ok, next_alert, attempts, save_called>>

histVars == <<last_ps, last_sent, rebased, tracking, anchor>>

vars == <<detectVars, sigVars, histVars, loopVars, retryVars, histVars>>

-----------------------------------------------------------------------------
(* Bounds and program constants *)

MaxFetch == 2          \* longest fetched list of the reconciliation specification
MaxSig == 5            \* largest size handed to is_significant_change alone
MaxThr == 3            \* largest threshold handed to is_significant_change alone

MaxDriverFetch == 2    \* longest list the upstream returns to the driver loop

CHANGE_THRESHOLD == 2  \* 0.01, in units of 0.005

\* Times of the retry loop, in units of 5 seconds
MAX_RETRY_DURATION == 12
RETRY_INTERVAL == 2
FETCH_TIMEOUT == 2

Variants == {"A", "B"}

\* The (conditionId, outcome) pairs of the modelled feed: one market with both
\* outcomes held, one market with a single outcome.
PosIds == {<<"m1", "YES">>, <<"m1", "NO">>, <<"m2", "YES">>}

\* Sizes a stored snapshot entry may start with, and sizes the feed may carry
\* (a signed number; 0 is "no position").
OldSizes == {1, 2, 4}
FeedSizes == {0 - 1, 0, 1, 2, 4}

-----------------------------------------------------------------------------
(* Snapshots: Python dicts, which iterate in insertion order, as sequences *)
(* of entries with pairwise distinct keys.                                 *)

KeysOf(state) == {state[i].key : i \in DOMAIN state}

HasKey(state, key) == key \in KeysOf(state)

IndexOf(state, key) == CHOOSE i \in DOMAIN state : state[i].key = key

\* dict.get(key): the record, or None
None == [key |-> "None", size |-> 0, outcome |-> "None"]

DictGet(state, key) == IF HasKey(state, key) THEN state[IndexOf(state, key)] ELSE None

DictSetKeepFirst(state, entry) ==
    IF HasKey(state, entry.key) THEN state ELSE Append(state, entry)

\* state[key] = record: overwrite in place, or insert at the end
DictSet(state, entry) ==
    IF HasKey(state, entry.key)
    THEN [state EXCEPT ![IndexOf(state, entry.key)] = entry]
    ELSE Append(state, entry)

\* dict equality: same keys, same records, whatever the order
DictEq(s, t) ==
    /\ KeysOf(s) = KeysOf(t)
    /\ \A k \in KeysOf(s) : DictGet(s, k) = DictGet(t, k)

-----------------------------------------------------------------------------
(* Keys *)

KeyA(cid, outcome) == cid

KeyB(cid, outcome) == cid \o ":" \o outcome

PositionKey(v, cid, outcome) == IF v = "A" THEN KeyA(cid, outcome) ELSE KeyB(cid, outcome)

-----------------------------------------------------------------------------
(* is_significant_change *)

Abs(x) == IF x < 0 THEN 0 - x ELSE x

IsSignificantChangeInclusive(old_size, new_size, threshold) ==
    LET diff == Abs(new_size - old_size)
    IN  IF diff <= threshold THEN FALSE ELSE TRUE

IsSignificantChange(old_size, new_size, threshold) ==
    LET diff == Abs(new_size - old_size)
    IN  IF diff < threshold THEN FALSE ELSE TRUE

-----------------------------------------------------------------------------
(* detect_position_changes *)

Alert(kind, key, outcome, old_size, size, delta, pos) ==
    [kind |-> kind, key |-> key, outcome |-> outcome, old_size |-> old_size,
     size |-> size, delta |-> delta, pos |-> pos]

\* p["conditionId"] or p["size"] raises KeyError
Malformed(p) == p.missing # "none"

\* "if size == 0: continue": nothing stored, nothing alerted
ZeroSizeClosesToo(acc, o, key, outcome, i) ==
    IF o # None
    THEN [alerts |-> Append(acc.alerts, Alert("Closed", key, outcome, o.size, 0, 0, i)),
          new_state |-> acc.new_state]
    ELSE acc

ZeroSize(acc, o, key, outcome, i) == acc

\* "if not is_significant_change(old_size, size): continue", which comes after
\* new_state[key] was assigned
SuppressedNotStored(acc, stored) == acc

Suppressed(acc, stored) == [alerts |-> acc.alerts, new_state |-> stored]

\* One iteration of "for p in new_positions", on the pair (alerts, new_state)
PositionStep(v, old, acc, p, i) ==
    LET key == PositionKey(v, p.cid, p.outcome)
        size == p.size
        stored == DictSet(acc.new_state,
                          [key |-> key, size |-> size, outcome |-> p.outcome])
        o == DictGet(old, key)
    IN  IF size = 0 THEN ZeroSize(acc, o, key, p.outcome, i)
        ELSE IF o = None /\ size > 0
        THEN [alerts |-> Append(acc.alerts,
                                Alert("Opened", key, p.outcome, 0, size, 0, i)),
              new_state |-> stored]
        ELSE IF o # None
        THEN IF ~IsSignificantChange(o.size, size, CHANGE_THRESHOLD)
             THEN Suppressed(acc, stored)
             ELSE IF size > o.size
             THEN [alerts |-> Append(acc.alerts,
                                     Alert("Increased", key, p.outcome, o.size, size,
                                           size - o.size, i)),
                   new_state |-> stored]
             ELSE IF 0 < size /\ size < o.size
             THEN [alerts |-> Append(acc.alerts,
                                     Alert("Decreased", key, p.outcome, o.size, size,
                                           o.size - size, i)),
                   new_state |-> stored]
             ELSE IF size = 0 /\ o.size > 0
             THEN [alerts |-> Append(acc.alerts,
                                     Alert("Closed", key, p.outcome, o.size, 0, 0, i)),
                   new_state |-> stored]
             ELSE [alerts |-> acc.alerts, new_state |-> stored]
        ELSE [alerts |-> acc.alerts, new_state |-> stored]

\* The first loop, over the first n fetched positions
RECURSIVE FetchedPass(_, _, _, _)
FetchedPass(v, old, ps, n) ==
    IF n = 0 THEN [alerts |-> <<>>, new_state |-> <<>>]
    ELSE PositionStep(v, old, FetchedPass(v, old, ps, n - 1), ps[n], n)

RECURSIVE ClosedPassAllKeys(_, _, _, _)
ClosedPassAllKeys(old, new, als, n) ==
    IF n = 0 THEN als
    ELSE LET before == ClosedPassAllKeys(old, new, als, n - 1)
             old_data == old[n]
         IN  IF old_data.size > 0
             THEN Append(before, Alert("Closed", old_data.key, old_data.outcome,
                                       old_data.size, 0, 0, 0))
             ELSE before

RECURSIVE ClosedPassFirst(_, _, _, _)
ClosedPassFirst(old, new, als, n) ==
    IF n = 0 THEN als
    ELSE LET before == ClosedPassFirst(old, new, als, n - 1)
             old_data == old[n]
         IN  IF ~HasKey(new, old_data.key) /\ old_data.size > 0
             THEN <<Alert("Closed", old_data.key, old_data.outcome,
                          old_data.size, 0, 0, 0)>> \o before
             ELSE before

\* The second loop, over the first n entries of old_state
RECURSIVE ClosedPass(_, _, _, _)
ClosedPass(old, new, als, n) ==
    IF n = 0 THEN als
    ELSE LET before == ClosedPass(old, new, als, n - 1)
             old_data == old[n]
         IN  IF ~HasKey(new, old_data.key) /\ old_data.size > 0
             THEN Append(before, Alert("Closed", old_data.key, old_data.outcome,
                                       old_data.size, 0, 0, 0))
             ELSE before

DetectPositionChanges(v, old, ps) ==
    IF \E i \in DOMAIN ps : Malformed(ps[i])
    THEN [raised |-> TRUE, alerts |-> <<>>, new_state |-> <<>>]
    ELSE LET first == FetchedPass(v, old, ps, Len(ps))
         IN  [raised |-> FALSE,
              alerts |-> ClosedPass(old, first.new_state, first.alerts, Len(old)),
              new_state |-> first.new_state]

-----------------------------------------------------------------------------
(* Inputs of the reconciliation specification *)

SeqsUpTo(S, n) == UNION {[1..k -> S] : k \in 0..n}

DistinctKeys(state) ==
    \A i, j \in DOMAIN state : state[i].key = state[j].key => i = j

EntriesOf(v) ==
    {[key |-> PositionKey(v, id[1], id[2]), size |-> s, outcome |-> id[2]] :
        id \in PosIds, s \in OldSizes}

Snapshots(v) == {s \in SeqsUpTo(EntriesOf(v), Cardinality(PosIds)) : DistinctKeys(s)}

FeedPositions ==
    {[cid |-> id[1], outcome |-> id[2], size |-> s, missing |-> "none"] :
        id \in PosIds, s \in FeedSizes}

FeedLists == SeqsUpTo(FeedPositions, MaxFetch)

-----------------------------------------------------------------------------
(* SpecDetect: detect_position_changes applied to every old snapshot and  *)
(* fetched list of the bounded sets                                        *)

SigIdle ==
    /\ sig_old = 0
    /\ sig_new = 0
    /\ sig_thr = 0
    /\ sig_res = FALSE

LoopIdle ==
    /\ file_state = <<>>
    /\ file_ok = TRUE
    /\ next_alert = 1
    /\ attempts = <<>>
    /\ save_called = FALSE
    /\ elapsed = 0
    /\ wait_time = 0
    /\ retry_count = 0
    /\ waited = 0
    /\ last_ps = <<>>
    /\ last_sent = {}
    /\ rebased = FALSE
    /\ tracking = FALSE
    /\ anchor = {}

InitDetect ==
    /\ variant \in Variants
    /\ pc = "call"
    /\ old_state \in Snapshots(variant)
    /\ positions \in FeedLists
    /\ alerts = <<>>
    /\ new_state = <<>>
    /\ SigIdle
    /\ LoopIdle

Reconcile ==
    /\ pc = "call"
    /\ LET r == DetectPositionChanges(variant, old_state, positions)
       IN  /\ pc' = IF r.raised THEN "raised" ELSE "returned"
           /\ alerts' = r.alerts
           /\ new_state' = r.new_state
    /\ UNCHANGED <<variant, old_state, positions, sigVars, histVars, loopVars, retryVars>>

NextDetect == Reconcile

SpecDetect == InitDetect /\ [][NextDetect]_vars

-----------------------------------------------------------------------------
(* SpecSig: is_significant_change applied to every triple of the bounded   *)
(* sets                                                                    *)

InitSig ==
    /\ variant = "B"
    /\ pc = "sig"
    /\ old_state = <<>>
    /\ positions = <<>>
    /\ alerts = <<>>
    /\ new_state = <<>>
    /\ SigIdle
    /\ LoopIdle

CallSig ==
    /\ pc \in {"sig", "sig_returned"}
    /\ pc' = "sig_returned"
    /\ \E o \in 0..MaxSig, n \in 0..MaxSig, t \in 0..MaxThr :
          /\ sig_old' = o
          /\ sig_new' = n
          /\ sig_thr' = t
          /\ sig_res' = IsSignificantChange(o, n, t)
    /\ UNCHANGED <<variant, old_state, positions, alerts, new_state, loopVars, retryVars,
                   histVars>>

NextSig == CallSig

SpecSig == InitSig /\ [][NextSig]_vars

-----------------------------------------------------------------------------
(* Spec: the driver loop, main of POL.py (variant "A") and of POL1.py      *)
(* (variant "B").  pc: "start" (before the start-up notification), "fetch",*)
(* "retry_wait", "detect", "notify", "save", "report" (in the except       *)
(* clause), "sleep", "halted" (after break), "crashed" (an exception left  *)
(* main).                                                                  *)

DriverSizes == {0, 1, 4}

DriverPositions ==
    {[cid |-> id[1], outcome |-> id[2], size |-> s, missing |-> "none"] :
        id \in PosIds, s \in DriverSizes}
    \cup {[cid |-> "m1", outcome |-> "YES", size |-> 0, missing |-> "size"]}

\* What the upstream may answer a successful fetch with
DriverFeed == SeqsUpTo(DriverPositions, MaxDriverFetch)

\* load_state: no state file, or the file an earlier run wrote
LoadableStates(v) ==
    {s \in SeqsUpTo({e \in EntriesOf(v) : e.size \in DriverSizes}, 1) : DistinctKeys(s)}

Min(a, b) == IF a < b THEN a ELSE b

\* fetch_positions_with_retry: "if elapsed >= MAX_RETRY_DURATION: raise"
ExhaustedLate(now) == now > MAX_RETRY_DURATION

Exhausted(now) == now >= MAX_RETRY_DURATION

\* fetch_positions_with_retry: wait_time = min(RETRY_INTERVAL, remaining)
WaitTimeFixed(now) == RETRY_INTERVAL

WaitTime(now) ==
    LET remaining == MAX_RETRY_DURATION - now
    IN  Min(RETRY_INTERVAL, remaining)

\* main's except clause: send_feishu(error_msg), one call
ReportSilent(atts, ok) == atts

ReportAttempt(atts, ok) == Append(atts, [kind |-> "error", idx |-> 0, ok |-> ok])

\* main's except clause, once the notification returned: POL.py falls through
\* to the sleep, POL1.py breaks out of the loop
AfterReportGoesOn(v) == "sleep"

AfterReport(v) == IF v = "A" THEN "sleep" ELSE "halted"

\* main: "save_state(new_state); old_state = new_state": the assignment runs
\* only when save_state returned
BaselineAlwaysReplaced(ok, old, new) == new

BaselineKept(ok, old, new) == old

BaselineAfterSave(ok, old, new) == IF ok THEN new ELSE old

\* send_feishu: whether a failed webhook call raises out of it
SendRaises(v, ok) == v = "A" /\ ~ok

Attempt(kind, idx, ok) == [kind |-> kind, idx |-> idx, ok |-> ok]

\* main before the first pass: nothing sent, fetched, saved or waited for
LoopIdleRest ==
    /\ file_ok = TRUE
    /\ next_alert = 1
    /\ attempts = <<>>
    /\ save_called = FALSE
    /\ elapsed = 0
    /\ wait_time = 0
    /\ retry_count = 0
    /\ waited = 0
    /\ last_ps = <<>>
    /\ last_sent = {}
    /\ rebased = FALSE
    /\ anchor = {}

Init ==
    /\ variant \in Variants
    /\ pc = "start"
    /\ old_state \in LoadableStates(variant)
    /\ file_state = old_state
    /\ positions = <<>>
    /\ alerts = <<>>
    /\ new_state = <<>>
    /\ LoopIdleRest
    /\ tracking = FALSE
    /\ SigIdle

\* main: the start-up notification, sent outside the try
Startup ==
    /\ pc = "start"
    /\ \E ok \in BOOLEAN :
          /\ attempts' = Append(attempts, Attempt("startup", 0, ok))
          /\ pc' = IF SendRaises(variant, ok) THEN "crashed" ELSE "fetch"
    /\ UNCHANGED <<variant, old_state, positions, alerts, new_state, sigVars, histVars,
                   file_state, file_ok, next_alert, save_called, retryVars>>

\* History: the upstream returns the list of the cycle before again
Repeats(ps) == ps = last_ps /\ last_sent # {}

\* POL.py main: positions = fetch_positions(), one attempt
FetchA ==
    /\ pc = "fetch"
    /\ variant = "A"
    /\ \E ok \in BOOLEAN, ps \in DriverFeed :
          /\ pc' = IF ok THEN "detect" ELSE "report"
          /\ positions' = IF ok THEN ps ELSE positions
          /\ last_ps' = IF ok /\ ~Repeats(ps) THEN <<>> ELSE last_ps
          /\ last_sent' = IF ok /\ ~Repeats(ps) THEN {} ELSE last_sent
    /\ UNCHANGED <<variant, old_state, alerts, new_state, sigVars, loopVars, retryVars,
                   rebased, tracking, anchor>>

\* POL1.py fetch_positions_with_retry: one pass of "while True", from the
\* fetch attempt (lasting d) to the return (the call's locals are gone), the
\* raise or the computed wait
FetchAttempt ==
    /\ pc = "fetch"
    /\ variant = "B"
    /\ \E ok \in BOOLEAN, ps \in DriverFeed, d \in 0..FETCH_TIMEOUT :
          LET now == elapsed + d
          IN  IF ok
              THEN /\ pc' = "detect"
                   /\ positions' = ps
                   /\ elapsed' = 0
                   /\ wait_time' = 0
                   /\ retry_count' = 0
                   /\ waited' = 0
                   /\ last_ps' = IF Repeats(ps) THEN last_ps ELSE <<>>
                   /\ last_sent' = IF Repeats(ps) THEN last_sent ELSE {}
              ELSE /\ positions' = positions
                   /\ UNCHANGED <<last_ps, last_sent>>
                   /\ elapsed' = now
                   /\ retry_count' = retry_count + 1
                   /\ waited' = waited
                   /\ IF Exhausted(now)
                      THEN pc' = "report" /\ wait_time' = 0
                      ELSE pc' = "retry_wait" /\ wait_time' = WaitTime(now)
    /\ UNCHANGED <<variant, old_state, alerts, new_state, sigVars, loopVars, rebased,
                   tracking, anchor>>

\* POL1.py fetch_positions_with_retry: time.sleep(wait_time), then the next pass
RetryWait ==
    /\ pc = "retry_wait"
    /\ elapsed' = elapsed + wait_time
    /\ waited' = waited + wait_time
    /\ pc' = "fetch"
    /\ UNCHANGED <<variant, old_state, positions, alerts, new_state, sigVars, histVars,
                   loopVars, wait_time, retry_count>>

\* main: alerts, new_state = detect_position_changes(old_state, positions)
Detect ==
    /\ pc = "detect"
    /\ LET r == DetectPositionChanges(variant, old_state, positions)
       IN  /\ pc' = IF r.raised THEN "report"
                    ELSE IF r.alerts = <<>> THEN "save" ELSE "notify"
           /\ alerts' = r.alerts
           /\ new_state' = r.new_state
    /\ next_alert' = 1
    /\ UNCHANGED <<variant, old_state, positions, sigVars, histVars, file_state, file_ok,
                   attempts, save_called, retryVars>>

\* main: one iteration of "for msg in alerts: send_feishu(msg)"
Notify ==
    /\ pc = "notify"
    /\ \E ok \in BOOLEAN :
          /\ attempts' = Append(attempts, Attempt("alert", next_alert, ok))
          /\ IF SendRaises(variant, ok)
             THEN pc' = "report" /\ next_alert' = next_alert
             ELSE /\ next_alert' = next_alert + 1
                  /\ pc' = IF next_alert = Len(alerts) THEN "save" ELSE "notify"
    /\ UNCHANGED <<variant, old_state, positions, alerts, new_state, sigVars, histVars,
                   file_state, file_ok, save_called, retryVars>>

\* main: save_state(new_state); old_state = new_state.  A failing save_state
\* raises, with the file untouched (open failed) or truncated (the write failed)
Save ==
    /\ pc = "save"
    /\ save_called' = TRUE
    /\ \E ok \in BOOLEAN, truncated \in BOOLEAN :
          /\ old_state' = BaselineAfterSave(ok, old_state, new_state)
          /\ rebased' = (tracking /\ ~DictEq(old_state', old_state))
          /\ IF ok
             THEN /\ file_state' = new_state
                  /\ file_ok' = TRUE
                  /\ pc' = "sleep"
             ELSE /\ file_state' = file_state
                  /\ file_ok' = (file_ok /\ ~truncated)
                  /\ pc' = "report"
    /\ UNCHANGED <<variant, positions, alerts, new_state, sigVars, next_alert,
                   attempts, retryVars, last_ps, last_sent, tracking, anchor>>

\* main: the except clause.  POL.py notifies and goes on to sleep; POL1.py
\* notifies and breaks
Report ==
    /\ pc = "report"
    /\ \E ok \in BOOLEAN :
          /\ attempts' = ReportAttempt(attempts, ok)
          /\ pc' = IF SendRaises(variant, ok) THEN "crashed" ELSE AfterReport(variant)
    /\ UNCHANGED <<variant, old_state, positions, alerts, new_state, sigVars, histVars,
                   file_state, file_ok, next_alert, save_called, retryVars>>

\* The alerts of this cycle whose send_feishu call went through
Delivered ==
    {alerts[attempts[k].idx] :
        k \in {j \in DOMAIN attempts : attempts[j].kind = "alert" /\ attempts[j].ok}}

\* main: time.sleep(POLL_INTERVAL), then the next pass of "while True"
Sleep ==
    /\ pc = "sleep"
    /\ pc' = "fetch"
    /\ positions' = <<>>
    /\ alerts' = <<>>
    /\ new_state' = <<>>
    /\ next_alert' = 1
    /\ attempts' = <<>>
    /\ save_called' = FALSE
    /\ elapsed' = 0
    /\ wait_time' = 0
    /\ retry_count' = 0
    /\ waited' = 0
    /\ last_sent' = IF tracking /\ ~rebased THEN Delivered ELSE {}
    /\ last_ps' = IF last_sent' = {} THEN <<>> ELSE positions
    /\ rebased' = FALSE
    /\ UNCHANGED <<variant, old_state, sigVars, file_state, file_ok, tracking, anchor>>

Next ==
    \/ Startup
    \/ FetchA
    \/ FetchAttempt
    \/ RetryWait
    \/ Detect
    \/ Notify
    \/ Save
    \/ Report
    \/ Sleep

Spec == Init /\ [][Next]_vars

(* SpecHistory: the same loop, with the deliveries of the cycle before kept  *)
(* next to its state                                                        *)

InitHistory ==
    /\ variant \in Variants
    /\ pc = "start"
    /\ old_state \in LoadableStates(variant)
    /\ file_state = old_state
    /\ positions = <<>>
    /\ alerts = <<>>
    /\ new_state = <<>>
    /\ LoopIdleRest
    /\ tracking = TRUE
    /\ SigIdle

SpecHistory == InitHistory /\ [][Next]_vars

(* SpecCycles: consecutive successful cycles of main: the reconciliation,  *)
(* then the alerts sent, the snapshot saved, old_state replaced, the sleep  *)
(* and the next fetch, all without an exception                            *)

MaxCycleFetch == 1     \* longest list the upstream returns to these cycles

CyclePosIds == {<<"m1", "YES">>, <<"m2", "YES">>}
CycleSizes == {0, 1, 2, 3}

CycleFeed ==
    SeqsUpTo({[cid |-> id[1], outcome |-> id[2], size |-> s, missing |-> "none"] :
                 id \in CyclePosIds, s \in CycleSizes}, MaxCycleFetch)

\* History: the size of the last alert of every key still held, after the
\* first n alerts of a cycle
RECURSIVE AnchorAfter(_, _, _)
AnchorAfter(anc, als, n) ==
    IF n = 0 THEN anc
    ELSE LET before == AnchorAfter(anc, als, n - 1)
             others == {a \in before : a[1] # als[n].key}
         IN  IF als[n].kind = "Closed" THEN others
             ELSE others \cup {<<als[n].key, als[n].size>>}

InitCycles ==
    /\ variant \in Variants
    /\ pc = "call"
    /\ old_state = <<>>
    /\ positions \in CycleFeed
    /\ alerts = <<>>
    /\ new_state = <<>>
    /\ SigIdle
    /\ LoopIdle

\* main, from the return of detect_position_changes to the next call of it
Rebase ==
    /\ pc = "returned"
    /\ old_state' = BaselineAfterSave(TRUE, old_state, new_state)
    /\ file_state' = new_state
    /\ anchor' = AnchorAfter(anchor, alerts, Len(alerts))
    /\ positions' \in CycleFeed
    /\ alerts' = <<>>
    /\ new_state' = <<>>
    /\ pc' = "call"
    /\ UNCHANGED <<variant, sigVars, file_ok, next_alert, attempts, save_called,
                   retryVars, last_ps, last_sent, rebased, tracking>>

NextCycles ==
    \/ Reconcile
    \/ Rebase

SpecCycles == InitCycles /\ [][NextCycles]_vars

(* SpecRetry: one call of POL1.py's fetch_positions_with_retry, up to its   *)
(* return or raise.  Every fetch attempt completes (requests' timeout) and  *)
(* every time.sleep returns: weak fairness of both steps.                   *)

InitRetry ==
    /\ variant = "B"
    /\ pc = "fetch"
    /\ old_state = <<>>
    /\ file_state = <<>>
    /\ positions = <<>>
    /\ alerts = <<>>
    /\ new_state = <<>>
    /\ LoopIdleRest
    /\ tracking = FALSE
    /\ SigIdle

NextRetry ==
    \/ FetchAttempt
    \/ RetryWait

SpecRetry ==
    /\ InitRetry
    /\ [][NextRetry]_vars
    /\ WF_vars(FetchAttempt)
    /\ WF_vars(RetryWait)

-----------------------------------------------------------------------------
(* Properties of detect_position_changes, read in the state it returned in *)

Returned == pc = "returned"

KeyAt(i) == PositionKey(variant, positions[i].cid, positions[i].outcome)

AlertsAt(i) == {j \in DOMAIN alerts : alerts[j].pos = i}

ClosedFor(key) == {j \in DOMAIN alerts : alerts[j].kind = "Closed" /\ alerts[j].key = key}

\* The last fetched position with this key and a non-zero size
LastNonZero(key) ==
    CHOOSE i \in DOMAIN positions :
        /\ KeyAt(i) = key /\ positions[i].size # 0
        /\ \A j \in DOMAIN positions : KeyAt(j) = key /\ positions[j].size # 0 => j <= i

\* The old entries of this position's own market and outcome
OwnOld(i) ==
    {k \in DOMAIN old_state :
        /\ old_state[k].key = KeyAt(i)
        /\ old_state[k].outcome = positions[i].outcome}

\* What a position of this size is classified as against a stored size
Classified(has_old, old_size, size) ==
    IF ~has_old THEN "Opened"
    ELSE IF Abs(size - old_size) < CHANGE_THRESHOLD THEN "suppressed"
    ELSE IF size > old_size THEN "Increased"
    ELSE "Decreased"

\* C1 (on positive sizes): two fetched positions of one market with different
\* outcomes give two separate entries of the new snapshot, each with its own size,
\* and each is classified against the old record of its own outcome only.
C1_KeyDisambiguation ==
    Returned =>
        \A i, j \in DOMAIN positions :
            (/\ positions[i].cid = positions[j].cid
             /\ positions[i].outcome # positions[j].outcome
             /\ positions[i].size > 0 /\ positions[j].size > 0)
            => /\ \E a, b \in DOMAIN new_state :
                    /\ a # b
                    /\ new_state[a].outcome = positions[i].outcome
                    /\ new_state[a].size = positions[i].size
                    /\ new_state[b].outcome = positions[j].outcome
                    /\ new_state[b].size = positions[j].size
               /\ LET own == OwnOld(i)
                      kind == Classified(own # {},
                                         IF own = {} THEN 0
                                         ELSE old_state[CHOOSE k \in own : TRUE].size,
                                         positions[i].size)
                  IN  IF kind = "suppressed" THEN AlertsAt(i) = {}
                      ELSE \E a \in AlertsAt(i) : AlertsAt(i) = {a} /\ alerts[a].kind = kind

\* C2: a key the old snapshot holds with size > 0 and the fetched list omits, or
\* carries with size 0 only, gets exactly one Closed alert and no entry in the
\* new snapshot.
C2_ClosedExactlyOnce ==
    Returned =>
        \A k \in DOMAIN old_state :
            (/\ old_state[k].size > 0
             /\ \A i \in DOMAIN positions :
                    KeyAt(i) = old_state[k].key => positions[i].size = 0)
            => /\ Cardinality(ClosedFor(old_state[k].key)) = 1
               /\ ~HasKey(new_state, old_state[k].key)

C2_Witness ==
    /\ Returned
    /\ \E k \in DOMAIN old_state, i \in DOMAIN positions :
          /\ KeyAt(i) = old_state[k].key
          /\ positions[i].size = 0
          /\ \A j \in DOMAIN positions :
                KeyAt(j) = old_state[k].key => positions[j].size = 0
          /\ Cardinality(ClosedFor(old_state[k].key)) = 1

\* C3: no entry of the returned snapshot has size <= 0.
C3_NoNonPositiveSize ==
    Returned => \A k \in DOMAIN new_state : new_state[k].size > 0

NonNegativeFeed == \A i \in DOMAIN positions : positions[i].size >= 0

\* C5 as stated, for POL1.py and feeds of non-negative sizes: a fetched position
\* with size > 0 whose key the old snapshot lacks gets exactly one Opened alert,
\* and the new snapshot holds the fetched size under that key.
C5_OpenedStoresOwnSize ==
    (Returned /\ variant = "B" /\ NonNegativeFeed) =>
        \A i \in DOMAIN positions :
            (~HasKey(old_state, KeyAt(i)) /\ positions[i].size > 0)
            => /\ \E a \in AlertsAt(i) :
                    /\ AlertsAt(i) = {a}
                    /\ alerts[a].kind = "Opened"
                    /\ alerts[a].size = positions[i].size
               /\ HasKey(new_state, KeyAt(i))
               /\ DictGet(new_state, KeyAt(i)).size = positions[i].size

\* C5, amended: a fetched position with size > 0 whose key the old snapshot
\* lacks gets exactly one Opened alert (whatever the threshold), and the new
\* snapshot holds under that key the size of the last fetched position with that
\* key and a non-zero size.
C5_OpenedStoresLastSize ==
    Returned =>
        \A i \in DOMAIN positions :
            (~HasKey(old_state, KeyAt(i)) /\ positions[i].size > 0)
            => /\ \E a \in AlertsAt(i) :
                    /\ AlertsAt(i) = {a}
                    /\ alerts[a].kind = "Opened"
                    /\ alerts[a].size = positions[i].size
               /\ HasKey(new_state, KeyAt(i))
               /\ DictGet(new_state, KeyAt(i)).size =
                      positions[LastNonZero(KeyAt(i))].size

C5_Witness ==
    /\ Returned
    /\ \E i \in DOMAIN positions :
          /\ ~HasKey(old_state, KeyAt(i))
          /\ positions[i].size > 0
          /\ positions[i].size < CHANGE_THRESHOLD
          /\ LastNonZero(KeyAt(i)) # i
          /\ \E a \in AlertsAt(i) : alerts[a].kind = "Opened"

\* C6, for POL1.py: a fetched position with non-zero size whose key the old
\* snapshot holds, and whose size differs from the stored one by the threshold
\* or more, gets exactly one alert: Increased with delta size - oldSize when it
\* grew, Decreased with magnitude oldSize - size otherwise.
C6_SignificantChangeAlerted ==
    (Returned /\ variant = "B") =>
        \A i \in DOMAIN positions :
            LET o == DictGet(old_state, KeyAt(i))
                size == positions[i].size
            IN  (/\ size # 0
                 /\ HasKey(old_state, KeyAt(i))
                 /\ Abs(size - o.size) >= CHANGE_THRESHOLD)
                => \E a \in AlertsAt(i) :
                      /\ AlertsAt(i) = {a}
                      /\ IF size > o.size
                         THEN alerts[a].kind = "Increased" /\ alerts[a].delta = size - o.size
                         ELSE alerts[a].kind = "Decreased" /\ alerts[a].delta = o.size - size

\* C7 as stated, for POL1.py and feeds of non-negative sizes: a tracked position
\* whose non-zero size moved by less than the threshold gets no alert, and the
\* new snapshot stores its size.
C7_SuppressedStoresOwnSize ==
    (Returned /\ variant = "B" /\ NonNegativeFeed) =>
        \A i \in DOMAIN positions :
            LET o == DictGet(old_state, KeyAt(i))
                size == positions[i].size
            IN  (/\ size # 0
                 /\ HasKey(old_state, KeyAt(i))
                 /\ Abs(size - o.size) < CHANGE_THRESHOLD)
                => /\ AlertsAt(i) = {}
                   /\ DictGet(new_state, KeyAt(i)).size = size

\* C7, amended: a tracked position whose non-zero size moved by less than the
\* threshold gets no alert, and the new snapshot stores under its key the size
\* of the last fetched position with that key and a non-zero size (a fetched
\* size, never the old one kept).
C7_SuppressedStoresLastSize ==
    Returned =>
        \A i \in DOMAIN positions :
            LET o == DictGet(old_state, KeyAt(i))
                size == positions[i].size
            IN  (/\ size # 0
                 /\ HasKey(old_state, KeyAt(i))
                 /\ Abs(size - o.size) < CHANGE_THRESHOLD)
                => /\ AlertsAt(i) = {}
                   /\ HasKey(new_state, KeyAt(i))
                   /\ DictGet(new_state, KeyAt(i)).size =
                          positions[LastNonZero(KeyAt(i))].size

C7_Witness ==
    /\ Returned
    /\ \E i \in DOMAIN positions :
          /\ HasKey(old_state, KeyAt(i))
          /\ positions[i].size # 0
          /\ positions[i].size # DictGet(old_state, KeyAt(i)).size
          /\ Abs(positions[i].size - DictGet(old_state, KeyAt(i)).size) < CHANGE_THRESHOLD
          /\ LastNonZero(KeyAt(i)) = i
          /\ alerts = <<>>
          /\ DictGet(new_state, KeyAt(i)).size = positions[i].size

\* The old snapshot is exactly the records of the fetched positions of non-zero size
SameAsFetched ==
    /\ \A i \in DOMAIN positions :
          positions[i].size # 0 =>
              DictGet(old_state, KeyAt(i)) =
                  [key |-> KeyAt(i), size |-> positions[i].size,
                   outcome |-> positions[i].outcome]
    /\ \A k \in DOMAIN old_state :
          \E i \in DOMAIN positions :
              positions[i].size # 0 /\ KeyAt(i) = old_state[k].key

\* C8: when the old snapshot is exactly the records of the fetched positions of
\* non-zero size, no alert is emitted and the new snapshot equals it; applied
\* again to its own result and the same list, the function again emits nothing
\* and returns the same snapshot.
C8_NoChangeFixedPoint ==
    (Returned /\ SameAsFetched) =>
        /\ alerts = <<>>
        /\ DictEq(new_state, old_state)
        /\ LET again == DetectPositionChanges(variant, new_state, positions)
           IN  /\ ~again.raised
               /\ again.alerts = <<>>
               /\ DictEq(again.new_state, new_state)

C8_Witness ==
    /\ Returned
    /\ SameAsFetched
    /\ Len(old_state) = 1
    /\ Len(positions) = 2
    /\ \E i \in DOMAIN positions : positions[i].size = 0
    /\ alerts = <<>>

\* C9: alerts of the fetched-position pass come first, in the order of the
\* fetched list; the Closed alerts of the disappeared-position pass follow, in
\* the iteration order of the old snapshot.
C9_AlertOrdering ==
    Returned =>
        /\ \A a \in DOMAIN alerts :
              IF alerts[a].pos = 0
              THEN alerts[a].kind = "Closed" /\ HasKey(old_state, alerts[a].key)
              ELSE alerts[a].kind \in {"Opened", "Increased", "Decreased"}
        /\ \A a, b \in DOMAIN alerts :
              a < b =>
                  /\ alerts[b].pos > 0 => (alerts[a].pos > 0 /\ alerts[a].pos < alerts[b].pos)
                  /\ (alerts[a].pos = 0 /\ alerts[b].pos = 0) =>
                        IndexOf(old_state, alerts[a].key) < IndexOf(old_state, alerts[b].key)

C9_Witness ==
    /\ Returned
    /\ Len(alerts) = 3
    /\ alerts[1].pos > 0
    /\ alerts[2].pos = 0
    /\ alerts[3].pos = 0

-----------------------------------------------------------------------------
(* Properties of is_significant_change *)

\* C4: is_significant_change returns False exactly when the sizes differ by
\* strictly less than the threshold (True at a difference equal to it), and the
\* result is the same with the two sizes exchanged.
C4_SignificanceFilter ==
    pc = "sig_returned" =>
        /\ (sig_res = FALSE) <=>
               (sig_new - sig_old < sig_thr /\ sig_old - sig_new < sig_thr)
        /\ sig_res = IsSignificantChange(sig_new, sig_old, sig_thr)

C4_Witness ==
    /\ pc = "sig_returned"
    /\ sig_res = TRUE
    /\ sig_thr > 0
    /\ sig_new - sig_old = sig_thr

-----------------------------------------------------------------------------
(* Properties of the driver loop *)

FailedAlert ==
    \E k \in DOMAIN attempts : attempts[k].kind = "alert" /\ ~attempts[k].ok

AlertAttempts(i) ==
    {k \in DOMAIN attempts : attempts[k].kind = "alert" /\ attempts[k].idx = i}

\* C10: once send_feishu has failed for an alert of the cycle, the cycle goes
\* on: the except clause and the end of the loop are reached only through
\* save_state (never because of the failed notification), every alert of the
\* cycle has been attempted exactly once when save_state is reached, none is
\* attempted twice, and a cycle that reaches its sleep has called save_state
\* and replaced the baseline by the cycle's new snapshot.
C10_BestEffortNotification ==
    FailedAlert =>
        /\ pc \in {"report", "halted", "crashed"} => save_called
        /\ \A i \in DOMAIN alerts : Cardinality(AlertAttempts(i)) <= 1
        /\ (pc = "save" \/ save_called) =>
              \A i \in DOMAIN alerts : Cardinality(AlertAttempts(i)) = 1
        /\ pc = "sleep" => (save_called /\ old_state = new_state)

-----------------------------------------------------------------------------
(* Properties of the driver loop over several cycles                       *)

\* The send_feishu calls of this cycle that went through for an alert
DeliveredAttempts ==
    {k \in DOMAIN attempts : attempts[k].kind = "alert" /\ attempts[k].ok}

\* The fetched list names no key twice
DistinctFeedKeys == \A i, j \in DOMAIN positions : KeyAt(i) = KeyAt(j) => i = j

\* C11: the alert of a transition is delivered at most once: no alert is
\* delivered twice within a cycle, and an alert delivered by the cycle before
\* is not delivered again by this cycle for the same baseline and an unchanged
\* upstream list (of pairwise distinct keys and sizes >= 0).
C11_AlertOncePerTransition ==
    /\ \A j, k \in DeliveredAttempts : attempts[j].idx = attempts[k].idx => j = k
    /\ DistinctFeedKeys /\ NonNegativeFeed =>
          \A k \in DeliveredAttempts :
              ~(positions = last_ps /\ alerts[attempts[k].idx] \in last_sent)

ErrorAttempts == {k \in DOMAIN attempts : attempts[k].kind = "error"}

AlertAttemptsMade == {k \in DOMAIN attempts : attempts[k].kind = "alert"}

\* fetch_positions_with_retry raised in this cycle: its last failed attempt was
\* observed with the budget used up
FetchRaised == retry_count > 0 /\ elapsed >= MAX_RETRY_DURATION

\* C12: in POL1.py, once fetch_positions_with_retry raised for an exhausted
\* budget, the next step is the one report that ends in Halted; in Halted
\* exactly one fatal-error notification was attempted, nothing was reconciled,
\* alerted or saved in that cycle, both snapshots are as the cycle found them,
\* and no step leaves Halted.
C12_HaltOnExhaustedRetry ==
    /\ [](variant = "B" /\ pc = "halted" /\ FetchRaised =>
            /\ Cardinality(ErrorAttempts) = 1
            /\ attempts[Len(attempts)].kind = "error"
            /\ AlertAttemptsMade = {}
            /\ positions = <<>> /\ alerts = <<>> /\ new_state = <<>>
            /\ ~save_called
            /\ old_state = file_state)
    /\ [][variant = "B" /\ pc = "report" => pc' = "halted"]_vars
    /\ [][variant = "B" /\ pc \in {"fetch", "retry_wait", "report"} =>
            UNCHANGED <<old_state, file_state, file_ok>>]_vars
    /\ [][pc # "halted"]_vars

C12_Witness == variant = "B" /\ pc = "halted" /\ FetchRaised

\* The start-up notification went through, so main entered "while True"
LoopEntered ==
    /\ pc # "start"
    /\ ~(/\ attempts # <<>>
         /\ attempts[Len(attempts)].kind = "startup"
         /\ ~attempts[Len(attempts)].ok)

\* C13: in POL.py the loop never ends: once entered it is polling (fetch,
\* reconcile, notify, save, report) or sleeping, whatever exception a cycle
\* raised, and after a reported error the in-memory snapshot is still the one
\* last saved.
C13_ContinueOnError ==
    variant = "A" /\ LoopEntered =>
        /\ pc \in {"fetch", "detect", "notify", "save", "report", "sleep"}
        /\ ErrorAttempts # {} => old_state = file_state

\* C14: in fetch_positions_with_retry a failed attempt observed at elapsed
\* e < MAX_RETRY_DURATION is followed by a wait of exactly
\* min(RETRY_INTERVAL, MAX_RETRY_DURATION - e), which is positive and ends no
\* later than the budget, and then by the next attempt; a failed attempt
\* observed at e >= MAX_RETRY_DURATION raises with no further wait; the waits
\* of one call sum to at most MAX_RETRY_DURATION.
C14_BoundedRetryWaits ==
    /\ [](pc = "retry_wait" =>
            /\ elapsed < MAX_RETRY_DURATION
            /\ wait_time = Min(RETRY_INTERVAL, MAX_RETRY_DURATION - elapsed)
            /\ wait_time > 0
            /\ elapsed + wait_time <= MAX_RETRY_DURATION)
    /\ [](waited <= MAX_RETRY_DURATION)
    /\ [][variant = "B" /\ pc = "fetch" /\ pc' = "retry_wait" =>
            elapsed' < MAX_RETRY_DURATION]_vars
    /\ [][variant = "B" /\ pc = "fetch" /\ pc' = "report" =>
            elapsed' >= MAX_RETRY_DURATION /\ waited' = waited]_vars
    /\ [][variant = "B" /\ pc = "fetch" /\ pc' \notin {"detect", "report"} =>
            pc' = "retry_wait"]_vars
    /\ [][pc = "retry_wait" =>
            /\ pc' = "fetch"
            /\ elapsed' = elapsed + wait_time
            /\ waited' = waited + wait_time]_vars

\* A wait cut short by the budget
C14_Witness ==
    /\ pc = "retry_wait"
    /\ wait_time > 0
    /\ wait_time < RETRY_INTERVAL
    /\ elapsed + wait_time = MAX_RETRY_DURATION

\* C15: old_state always equals the snapshot last written by a successful
\* save_state (or the one loaded at start-up); save_state is called only once
\* every alert of the cycle has been attempted; old_state changes only in the
\* step in which save_state returns, to the whole snapshot that
\* detect_position_changes returned for this cycle; a failing save_state leaves
\* old_state as it was, and so do all steps up to the next reconciliation.
C15_AtomicSnapshotReplacement ==
    /\ [](old_state = file_state)
    /\ [](pc = "save" \/ save_called =>
            \A i \in DOMAIN alerts : Cardinality(AlertAttempts(i)) = 1)
    /\ [][old_state' # old_state =>
            /\ pc = "save" /\ pc' = "sleep"
            /\ new_state = DetectPositionChanges(variant, old_state, positions).new_state
            /\ old_state' = new_state
            /\ file_state' = new_state]_vars
    /\ [][pc = "save" /\ pc' # "sleep" =>
            pc' = "report" /\ old_state' = old_state /\ file_state' = file_state]_vars

\* A failed save_state of a snapshot that differs from the baseline
C15_Witness ==
    /\ pc = "report"
    /\ save_called
    /\ ~DictEq(new_state, old_state)
    /\ old_state = file_state

\* The most attempts one call of fetch_positions_with_retry can make
MaxAttempts == MAX_RETRY_DURATION \div RETRY_INTERVAL + 1

\* C16: every call of fetch_positions_with_retry returns or raises, given that
\* each attempt completes and each wait ends, and it never makes more than
\* MAX_RETRY_DURATION / RETRY_INTERVAL + 1 attempts.
C16_RetryTerminates ==
    /\ [](retry_count <= MaxAttempts)
    /\ (pc \in {"fetch", "retry_wait"}) ~> (pc \in {"detect", "report"})

\* Every attempt failed at once: the call raised after its last allowed attempt
C16_Witness ==
    /\ pc = "report"
    /\ retry_count = MaxAttempts
    /\ elapsed = MAX_RETRY_DURATION
    /\ waited = MAX_RETRY_DURATION

\* The step sends exactly one notification, of this kind
SendsOne(kind) ==
    /\ Len(attempts') = Len(attempts) + 1
    /\ SubSeq(attempts', 1, Len(attempts)) = attempts
    /\ attempts'[Len(attempts')].kind = kind

\* The step sends no notification
SendsNothing == attempts' = attempts \/ attempts' = <<>>

\* Every exception that reaches main's except clause is reported by one
\* send_feishu call
FatalReported == [][pc = "report" => SendsOne("error")]_vars

\* Outside the except clause and the start-up, the only notifications are the
\* cycle's alerts, one per pass of the for loop
OnlyAlertsOtherwise ==
    /\ [][pc = "notify" => SendsOne("alert") /\ attempts'[Len(attempts')].idx = next_alert]_vars
    /\ [][(pc \notin {"start", "notify", "report"}) => SendsNothing]_vars

\* C17 as stated: every fetch failure that is retried has had a notification
\* sent for it by the time fetch_positions_with_retry returns, every fatal
\* error is reported by a notification, and nothing else is sent but alerts.
C17_EveryErrorNotified ==
    /\ [][variant = "B" /\ pc = "fetch" /\ retry_count > 0 /\ pc' = "detect" =>
            ErrorAttempts' # {}]_vars
    /\ FatalReported
    /\ OnlyAlertsOtherwise

\* C17, amended: every fatal error (an exception that reaches main's except
\* clause) is reported by exactly one send_feishu call; a fetch failure that is
\* retried sends no notification (it is only printed); outside the start-up
\* and the except clause nothing is sent but the cycle's alerts.
C17_FatalErrorNotified ==
    /\ FatalReported
    /\ [][(pc \in {"fetch", "retry_wait"}) => attempts' = attempts]_vars
    /\ [](pc = "retry_wait" => ErrorAttempts = {})
    /\ OnlyAlertsOtherwise

\* A second failure being retried, with no notification sent for the first
C17_Witness ==
    /\ pc = "retry_wait"
    /\ retry_count >= 2
    /\ ErrorAttempts = {}

\* The fetched list holds a record without its size
MalformedFetched == \E i \in DOMAIN positions : Malformed(positions[i])

\* C18: once detect_position_changes raised on a malformed record, the cycle
\* has no alerts and no new snapshot, sends no alert and does not save, both
\* snapshots stay as they were, and the loop reports the error and goes on to
\* its sleep: the malformed record does not end the loop (a report that fails
\* to be delivered is the matter of C13).
C18_MalformedAbortsOnlyCycle ==
    MalformedFetched /\ pc # "detect" =>
        /\ alerts = <<>> /\ new_state = <<>>
        /\ AlertAttemptsMade = {}
        /\ ~save_called
        /\ old_state = file_state
        /\ pc # "halted"

-----------------------------------------------------------------------------
(* The alerts of one reconciliation against the change of the key set      *)

AlertedKeys(kind) == {alerts[j].key : j \in {k \in DOMAIN alerts : alerts[k].kind = kind}}

AlertsFor(key) == {j \in DOMAIN alerts : alerts[j].key = key}

\* C20: for an old snapshot of sizes > 0 and a fetched list of pairwise
\* distinct keys and sizes >= 0, the keys of the new snapshot are the old keys
\* without the keys of the Closed alerts plus the keys of the Opened alerts;
\* no key gets two alerts; Opened goes to keys absent from the old snapshot,
\* Increased, Decreased and Closed to keys present in it.
C20_AlertsAccountForKeyChanges ==
    (/\ Returned
     /\ DistinctFeedKeys
     /\ NonNegativeFeed
     /\ \A k \in DOMAIN old_state : old_state[k].size > 0)
    => /\ KeysOf(new_state) =
              (KeysOf(old_state) \ AlertedKeys("Closed")) \cup AlertedKeys("Opened")
       /\ \A j \in DOMAIN alerts :
              /\ Cardinality(AlertsFor(alerts[j].key)) = 1
              /\ alerts[j].kind = "Opened" => ~HasKey(old_state, alerts[j].key)
              /\ alerts[j].kind \in {"Increased", "Decreased", "Closed"}
                    => HasKey(old_state, alerts[j].key)

\* One call that opens a key, closes another and changes a third
C20_Witness ==
    /\ Returned
    /\ DistinctFeedKeys
    /\ NonNegativeFeed
    /\ AlertedKeys("Closed") # {}
    /\ AlertedKeys("Opened") # {}
    /\ AlertedKeys("Increased") \cup AlertedKeys("Decreased") # {}
    /\ KeysOf(new_state) # KeysOf(old_state)

=============================================================================
